---------------------------- MODULE Spec2Model ----------------------------
(***************************************************************************)
(* Model of src/rtc.c, a virtual RTC driver: state.last_time is advanced   *)
(* from the wrapping tick counter jiffies by update_time(), a one-shot     *)
(* timer re-armed by reset_timer() commits before jiffies can wrap back,   *)
(* and virt_rtc_read_time()/virt_rtc_set_time() are the caller entry       *)
(* points.                                                                 *)
(*                                                                         *)
(* Contexts: two caller threads and the timer softirq, interleaved at the  *)
(* granularity of the statements of rtc.c that touch shared state.  The    *)
(* host timer fires when jiffies reaches timer.expires; its callback, like *)
(* any other invocation, may be overtaken by at most MaxLatency ticks.     *)
(* The callback runs in softirq context: on an idle CPU, or on top of a    *)
(* caller whose CPU has interrupts enabled, which waits until it returns.  *)
(*                                                                         *)
(* ktime_t values are kept in milliseconds, not nanoseconds: every value   *)
(* the driver computes is a whole number of ticks past a whole second, and *)
(* TLC's integers are 32 bits wide.  struct rtc_time is kept as the whole  *)
(* second count it denotes (rtc_tm_to_time64 is a bijection on valid       *)
(* dates); a negative count stands for a date rtc_valid_tm rejects.        *)
(***************************************************************************)
EXTENDS Integers, FiniteSets

\* ------------------------------------------------------------- bounds
\* Width of unsigned long (of jiffies), in bits.
BITS_PER_LONG == 2
\* Ticks per second.
HZ == 2
\* Ticks that may pass while one invocation (a call, a timer callback
\* counted from its deadline) is in progress.
MaxLatency == 1
\* Calls of read_time and set_time the model follows.
MaxCalls == 2

\* Ticks the model follows: past the first timer deadline and a late callback.
MaxTicks == 6

Wrap == 2 ^ BITS_PER_LONG

\* ---------------------------------------------------------- constants
MSEC_PER_SEC == 1000
ENOMEM == 12
EINVAL == 22
\* jiffies when the module is loaded: close to the wrap, so that the wrap is met early.
INITIAL_JIFFIES == Wrap - 2

Callers == {"c1", "c2"}
Timer == "softirq"
Procs == Callers \cup {Timer}
NoProc == "none"
\* The struct rtc_time values callers pass to set_time.
SetTimes == {-1, 5}

VARIABLES
  jiffies,       \* the host tick counter, BITS_PER_LONG wide
  last_time,     \* state.last_time (ktime_t)
  last_jiffies,  \* state.last_jiffies
  lock,          \* state.lock: its holder, or NoProc
  timer,         \* struct timer_list timer: pending, expires, due (expired, callback not yet run)
  mod,           \* where the module is in virt_rtc_init / virt_rtc_exit
  rc,            \* what virt_rtc_init returned
  fake_dev,      \* fake_dev.class / fake_dev.dev exist
  devres,        \* the devres group is open
  registered,    \* rtcvirt is registered: callers can reach virt_rtc_ops
  pc,            \* each context's position
  ljiffies,      \* update_time's local ljiffies
  expires,       \* the argument reset_timer has evaluated for mod_timer
  tm,            \* the caller's struct rtc_time (set_time's input, read_time's output)
  \* history variables
  now,           \* ticks since the module was loaded, unwrapped
  commit_now,    \* now when last_jiffies was last written
  base,          \* the last set_time (or the initialisation): its value and its tick
  set_called,    \* some set_time has been called
  max_ret,       \* the largest result a read_time has returned
  seen,          \* max_ret when the caller's read_time was invoked
  prev_read,     \* the last read_time that read last_time, if no set_time followed it
  commit_rec,    \* the commit update_time has just made (until it writes last_jiffies)
  obs,           \* what held when the caller's read_time read last_time
  calls,         \* read_time and set_time calls made so far
  lag,           \* ticks that passed during each context's invocation in progress
  auto_commit,   \* a timer callback committed after virt_rtc_exit's del_timer
  preempted      \* the caller whose CPU the running timer callback has interrupted

vars == <<jiffies, last_time, last_jiffies, lock, timer, mod, rc, fake_dev,
          devres, registered, pc, ljiffies, expires, tm, now, commit_now, base,
          set_called, max_ret, seen, prev_read, commit_rec, obs, lag, auto_commit, calls,
          preempted>>

drv   == <<last_time, last_jiffies, lock>>
life  == <<mod, rc, fake_dev, devres, registered>>
locs  == <<ljiffies, expires, tm>>
hist  == <<calls, commit_now, base, set_called, max_ret, seen, prev_read, commit_rec,
           obs, auto_commit>>

\* ------------------------------------------------------------ helpers
NoTimer   == [pending |-> FALSE, expires |-> 0, due |-> FALSE]
NoRead    == [has |-> FALSE, kt |-> 0, tm |-> 0, stamp |-> 0]
NoCommit  == [has |-> FALSE, elapsed |-> 0, added |-> 0, wrapped |-> FALSE, at |-> 0]
NoBase    == [set |-> FALSE, tm |-> 0, now |-> 0]
NoObs     == [has |-> FALSE, kt |-> 0, stamp |-> 0, at |-> 0, base |-> NoBase,
              prev |-> NoRead]
NoResult  == [has |-> FALSE, tm |-> 0]

Max(a, b) == IF a >= b THEN a ELSE b

\* How many times jiffies has wrapped by tick n.
Epoch(n) == (INITIAL_JIFFIES + n) \div Wrap

\* Length of one tick as a ktime_t duration.
TickMs == MSEC_PER_SEC \div HZ

\* A subtraction that does not wrap.
JiffiesDeltaNoWrap(lj, last) == IF lj >= last THEN lj - last ELSE 0

\* ljiffies - state.last_jiffies in unsigned long arithmetic.
JiffiesDelta(lj, last) == (lj - last) % Wrap

\* Ticks taken for seconds.
JiffiesToNsecsNoHz(delta) == delta * MSEC_PER_SEC

jiffies_to_nsecs(delta) == delta * TickMs

\* An assignment where an addition is meant.
KtimeAssignNs(kt, ns) == ns

ktime_add_ns(kt, ns) == kt + ns

\* A conversion that truncates the sub-second part.
RtcKtimeToTmTruncate(kt) == kt \div MSEC_PER_SEC

\* drivers/rtc/lib.c: ktime_to_timespec64, "round up any ns", rtc_time64_to_tm.
rtc_ktime_to_tm(kt) ==
  LET sec  == kt \div MSEC_PER_SEC
      nsec == kt % MSEC_PER_SEC
  IN  IF nsec # 0 THEN sec + 1 ELSE sec

\* A conversion that forgets the unit.
RtcTmToKtimeNoUnit(t) == t

\* ktime_set(rtc_tm_to_time64(tm), 0)
rtc_tm_to_ktime(t) == t * MSEC_PER_SEC

\* A check that accepts every date.
RtcValidTmAlways(t) == 0

rtc_valid_tm(t) == IF t < 0 THEN -EINVAL ELSE 0

\* state.last_jiffies - 1 in unsigned long arithmetic.
TimerExpires(last) == (last - 1) % Wrap

\* A mod_timer that stores the deadline and leaves the timer inactive.
ModTimerNoArm(e) == [pending |-> FALSE, expires |-> e, due |-> FALSE]

\* mod_timer(&timer, e): (re)arms the timer, pending or not; a deadline equal to
\* the current tick has been reached already.
mod_timer(e) == [pending |-> TRUE, expires |-> e, due |-> (e = jiffies)]

\* A lock that excludes nobody.
LockIgnored == TRUE

\* spin_lock_irqsave can return: nobody holds state.lock.
LockFree == lock = NoProc

\* A critical section entered without disabling interrupts.
IrqsLeftEnabled(c) == FALSE

\* Between spin_lock_irqsave and spin_unlock_irqrestore local interrupts are
\* off on the holder's CPU: no softirq, so no timer callback, starts there.
irqs_disabled(c) == lock = c

\* The context is executing: the timer callback has not interrupted its CPU.
OnCpu(p) == preempted # p

Busy(p) == pc[p] # "idle" \/ (p = Timer /\ timer.due)

Stopped == mod \in {"exit_release", "exit_destroy", "exited"}

\* --------------------------------------------------------------- Init
Init ==
  /\ jiffies = INITIAL_JIFFIES
  /\ last_time = 0
  /\ last_jiffies = 0
  /\ lock = NoProc
  /\ timer = NoTimer
  /\ mod = "unloaded"
  /\ rc = 0
  /\ fake_dev = [class |-> FALSE, dev |-> FALSE]
  /\ devres = FALSE
  /\ registered = FALSE
  /\ pc = [p \in Procs |-> "idle"]
  /\ ljiffies = [p \in Procs |-> 0]
  /\ expires = [p \in Procs |-> 0]
  /\ tm = [c \in Callers |-> 0]
  /\ now = 0
  /\ commit_now = 0
  /\ base = NoBase
  /\ set_called = FALSE
  /\ max_ret = NoResult
  /\ seen = [c \in Callers |-> NoResult]
  /\ prev_read = NoRead
  /\ commit_rec = NoCommit
  /\ obs = [c \in Callers |-> NoObs]
  /\ lag = [p \in Procs |-> 0]
  /\ auto_commit = FALSE
  /\ calls = 0
  /\ preempted = NoProc

\* ------------------------------------------------- the host's tick
\* The tick counter advances (and wraps); a pending timer whose deadline it
\* reaches has expired.  No invocation in progress is overtaken by more than
\* MaxLatency ticks.  Ticks are followed from the moment virt_rtc_init has
\* sampled jiffies into the state: INITIAL_JIFFIES is jiffies at that moment.
Tick ==
  /\ mod \notin {"unloaded", "init_devres", "init_alloc", "init_state"}
  /\ now < MaxTicks
  /\ \A p \in Procs : Busy(p) => lag[p] < MaxLatency
  /\ jiffies' = (jiffies + 1) % Wrap
  /\ now' = now + 1
  /\ timer' = IF timer.pending /\ timer.expires = jiffies'
                 THEN [timer EXCEPT !.due = TRUE]
                 ELSE timer
  /\ lag' = [p \in Procs |-> IF Busy(p) THEN lag[p] + 1 ELSE 0]
  /\ UNCHANGED <<preempted, drv, life, pc, locs, hist>>

\* ------------------------------------------------------ update_time
update_time_lock(p) ==
  /\ pc[p] = "ut_lock"
  /\ OnCpu(p)
  /\ LockFree
  /\ lock' = p
  /\ pc' = [pc EXCEPT ![p] = "ut_time"]
  /\ UNCHANGED <<preempted, jiffies, last_time, last_jiffies, timer, life, locs, now, hist, lag>>

\* ljiffies = jiffies; delta = ljiffies - state.last_jiffies;
\* state.last_time = ktime_add_ns(state.last_time, jiffies_to_nsecs(delta))
update_time_add(p) ==
  /\ pc[p] = "ut_time"
  /\ OnCpu(p)
  /\ ljiffies' = [ljiffies EXCEPT ![p] = jiffies]
  /\ last_time' = ktime_add_ns(last_time,
                               jiffies_to_nsecs(JiffiesDelta(jiffies, last_jiffies)))
  /\ commit_rec' = [has |-> TRUE, elapsed |-> now - commit_now,
                    added |-> last_time' - last_time,
                    wrapped |-> Epoch(now) # Epoch(commit_now), at |-> now]
  /\ auto_commit' = (auto_commit \/ (p = Timer /\ Stopped))
  /\ pc' = [pc EXCEPT ![p] = "ut_jiffies"]
  /\ UNCHANGED <<preempted, calls, jiffies, last_jiffies, lock, timer, life, expires, tm, now,
                 commit_now, base, set_called, max_ret, seen, prev_read, obs, lag>>

\* state.last_jiffies = ljiffies; spin_unlock_irqrestore
update_time_unlock(p) ==
  /\ pc[p] = "ut_jiffies"
  /\ OnCpu(p)
  /\ last_jiffies' = ljiffies[p]
  /\ lock' = NoProc
  /\ ljiffies' = [ljiffies EXCEPT ![p] = 0]
  /\ commit_now' = commit_rec.at
  /\ commit_rec' = NoCommit
  /\ pc' = [pc EXCEPT ![p] = "rt_exp"]
  /\ UNCHANGED <<preempted, calls, jiffies, last_time, timer, life, expires, tm, now, base,
                 set_called, max_ret, seen, prev_read, obs, lag, auto_commit>>

\* ------------------------------------------------------ reset_timer
\* The argument state.last_jiffies - 1 is read without state.lock ...
reset_timer_read(p) ==
  /\ pc[p] = "rt_exp"
  /\ OnCpu(p)
  /\ expires' = [expires EXCEPT ![p] = TimerExpires(last_jiffies)]
  /\ pc' = [pc EXCEPT ![p] = "rt_mod"]
  /\ UNCHANGED <<preempted, jiffies, drv, timer, life, ljiffies, tm, now, hist, lag>>

\* ... and mod_timer then arms the timer with it.  The timer callback ends
\* here; read_time goes on to read the time.
reset_timer_mod(p) ==
  /\ pc[p] = "rt_mod"
  /\ OnCpu(p)
  /\ timer' = mod_timer(expires[p])
  /\ expires' = [expires EXCEPT ![p] = 0]
  /\ pc' = [pc EXCEPT ![p] = IF p = Timer THEN "idle" ELSE "rd_lock"]
  /\ lag' = [lag EXCEPT ![Timer] = IF p = Timer \/ pc[Timer] = "idle" THEN 0 ELSE @]
  /\ preempted' = IF p = Timer THEN NoProc ELSE preempted
  /\ UNCHANGED <<jiffies, drv, life, ljiffies, tm, now, hist>>

\* ------------------------------------------ virt_rtc_periodic_update
\* The host runs the expired timer's callback: the timer is no longer pending
\* while virt_rtc_periodic_update (update_time, reset_timer) runs.  It runs in
\* softirq context, on an idle CPU or on top of a caller whose CPU has
\* interrupts enabled; that caller resumes when the callback has returned.
timer_fire ==
  /\ timer.pending /\ timer.due
  /\ pc[Timer] = "idle"
  /\ \E v \in {NoProc} \cup {c \in Callers : pc[c] # "idle" /\ ~irqs_disabled(c)} :
       preempted' = v
  /\ timer' = NoTimer
  /\ pc' = [pc EXCEPT ![Timer] = "ut_lock"]
  /\ UNCHANGED <<jiffies, drv, life, locs, now, hist, lag>>

\* ----------------------------------------------- virt_rtc_read_time
read_time_call(c) ==
  /\ registered
  /\ calls < MaxCalls
  /\ calls' = calls + 1
  /\ pc[c] = "idle"
  /\ seen' = [seen EXCEPT ![c] = max_ret]
  /\ pc' = [pc EXCEPT ![c] = "ut_lock"]
  /\ UNCHANGED <<preempted, jiffies, drv, timer, life, locs, now, commit_now, base, set_called,
                 max_ret, prev_read, commit_rec, obs, lag, auto_commit>>

read_time_lock(c) ==
  /\ pc[c] = "rd_lock"
  /\ OnCpu(c)
  /\ LockFree
  /\ lock' = c
  /\ pc' = [pc EXCEPT ![c] = "rd_read"]
  /\ UNCHANGED <<preempted, jiffies, last_time, last_jiffies, timer, life, locs, now, hist, lag>>

\* *tm = rtc_ktime_to_tm(state.last_time); spin_unlock_irqrestore
read_time_read(c) ==
  /\ pc[c] = "rd_read"
  /\ OnCpu(c)
  /\ tm' = [tm EXCEPT ![c] = rtc_ktime_to_tm(last_time)]
  /\ lock' = NoProc
  /\ obs' = [obs EXCEPT ![c] = [has |-> TRUE, kt |-> last_time, stamp |-> commit_now,
                                 at |-> now, base |-> base, prev |-> prev_read]]
  /\ prev_read' = [has |-> TRUE, kt |-> last_time, tm |-> tm'[c], stamp |-> commit_now]
  /\ pc' = [pc EXCEPT ![c] = "rd_ret"]
  /\ UNCHANGED <<preempted, calls, jiffies, last_time, last_jiffies, timer, life, ljiffies, expires,
                 now, commit_now, base, set_called, max_ret, seen, commit_rec, lag,
                 auto_commit>>

\* return rtc_valid_tm(tm)
read_time_return(c) ==
  /\ pc[c] = "rd_ret"
  /\ OnCpu(c)
  /\ max_ret' = IF rtc_valid_tm(tm[c]) # 0 THEN max_ret
                ELSE IF max_ret.has THEN [has |-> TRUE, tm |-> Max(max_ret.tm, tm[c])]
                ELSE [has |-> TRUE, tm |-> tm[c]]
  /\ tm' = [tm EXCEPT ![c] = 0]
  /\ seen' = [seen EXCEPT ![c] = NoResult]
  /\ obs' = [obs EXCEPT ![c] = NoObs]
  /\ lag' = [lag EXCEPT ![c] = 0]
  /\ pc' = [pc EXCEPT ![c] = "idle"]
  /\ UNCHANGED <<preempted, calls, jiffies, drv, timer, life, ljiffies, expires, now, commit_now,
                 base, set_called, prev_read, commit_rec, auto_commit>>

\* ------------------------------------------------ virt_rtc_set_time
set_time_call(c, t) ==
  /\ registered
  /\ calls < MaxCalls
  /\ calls' = calls + 1
  /\ pc[c] = "idle"
  /\ tm' = [tm EXCEPT ![c] = t]
  /\ set_called' = TRUE
  /\ pc' = [pc EXCEPT ![c] = "st_lock"]
  /\ UNCHANGED <<preempted, jiffies, drv, timer, life, ljiffies, expires, now, commit_now,
                 base, max_ret, seen, prev_read, commit_rec, obs, lag, auto_commit>>

set_time_lock(c) ==
  /\ pc[c] = "st_lock"
  /\ OnCpu(c)
  /\ LockFree
  /\ lock' = c
  /\ pc' = [pc EXCEPT ![c] = "st_time"]
  /\ UNCHANGED <<preempted, jiffies, last_time, last_jiffies, timer, life, locs, now, hist, lag>>

\* state.last_time = rtc_tm_to_ktime(*tm)
set_time_time(c) ==
  /\ pc[c] = "st_time"
  /\ OnCpu(c)
  /\ last_time' = rtc_tm_to_ktime(tm[c])
  /\ prev_read' = NoRead
  /\ pc' = [pc EXCEPT ![c] = "st_jiffies"]
  /\ UNCHANGED <<preempted, calls, jiffies, last_jiffies, lock, timer, life, locs, now, commit_now,
                 base, set_called, max_ret, seen, commit_rec, obs, lag, auto_commit>>

\* A set_time that goes on to reschedule the timer from the new last_jiffies.
SetTimeJiffiesRearm(c) ==
  /\ pc[c] = "st_jiffies"
  /\ OnCpu(c)
  /\ last_jiffies' = jiffies
  /\ lock' = NoProc
  /\ timer' = mod_timer(TimerExpires(jiffies))
  /\ commit_now' = now
  /\ base' = [set |-> TRUE, tm |-> tm[c], now |-> now]
  /\ tm' = [tm EXCEPT ![c] = 0]
  /\ lag' = [lag EXCEPT ![c] = 0]
  /\ pc' = [pc EXCEPT ![c] = "idle"]
  /\ UNCHANGED <<preempted, calls, jiffies, last_time, life, ljiffies, expires, now, set_called,
                 max_ret, seen, prev_read, commit_rec, obs, auto_commit>>

\* state.last_jiffies = jiffies; spin_unlock_irqrestore; return 0
set_time_jiffies(c) ==
  /\ pc[c] = "st_jiffies"
  /\ OnCpu(c)
  /\ last_jiffies' = jiffies
  /\ lock' = NoProc
  /\ commit_now' = now
  /\ base' = [set |-> TRUE, tm |-> tm[c], now |-> now]
  /\ tm' = [tm EXCEPT ![c] = 0]
  /\ lag' = [lag EXCEPT ![c] = 0]
  /\ pc' = [pc EXCEPT ![c] = "idle"]
  /\ UNCHANGED <<preempted, calls, jiffies, last_time, timer, life, ljiffies, expires, now, set_called,
                 max_ret, seen, prev_read, commit_rec, obs, auto_commit>>

\* ---------------------------------------------------- virt_rtc_init
err_to_rc(err) == err

\* del_timer(&timer): deactivates a pending timer; a callback that is
\* already running is not waited for.
del_timer == NoTimer

\* init_fake_device: class_create, then device_create, either of which may fail.
init_fake_device ==
  /\ mod = "unloaded"
  /\ \/ /\ fake_dev' = [class |-> TRUE, dev |-> TRUE]
        /\ mod' = "init_devres"
        /\ rc' = rc
     \/ /\ fake_dev' = [class |-> FALSE, dev |-> FALSE]
        /\ mod' = "failed"
        /\ rc' = err_to_rc(-ENOMEM)
  /\ UNCHANGED <<preempted, jiffies, drv, timer, devres, registered, pc, locs, now, hist, lag>>

\* devres_open_group; on failure err is still 0 when control reaches err_to_rc.
init_devres_open_group ==
  /\ mod = "init_devres"
  /\ \/ /\ devres' = TRUE
        /\ mod' = "init_alloc"
        /\ UNCHANGED <<rc, fake_dev>>
     \/ /\ devres' = FALSE
        /\ fake_dev' = [class |-> FALSE, dev |-> FALSE]
        /\ mod' = "failed"
        /\ rc' = err_to_rc(0)
  /\ UNCHANGED <<preempted, jiffies, drv, timer, registered, pc, locs, now, hist, lag>>

\* devm_rtc_allocate_device
init_allocate_device ==
  /\ mod = "init_alloc"
  /\ \/ /\ mod' = "init_state"
        /\ UNCHANGED <<rc, fake_dev, devres>>
     \/ /\ devres' = FALSE
        /\ fake_dev' = [class |-> FALSE, dev |-> FALSE]
        /\ mod' = "failed"
        /\ rc' = err_to_rc(-ENOMEM)
  /\ UNCHANGED <<preempted, jiffies, drv, timer, registered, pc, locs, now, hist, lag>>

\* rtcvirt->ops, state.last_time = 0, state.last_jiffies = jiffies,
\* spin_lock_init, timer_setup, reset_timer
init_state ==
  /\ mod = "init_state"
  /\ last_time' = 0
  /\ last_jiffies' = jiffies
  /\ lock' = NoProc
  /\ timer' = mod_timer(TimerExpires(last_jiffies'))
  /\ commit_now' = now
  /\ base' = [set |-> FALSE, tm |-> 0, now |-> now]
  /\ mod' = "init_register"
  /\ UNCHANGED <<preempted, calls, jiffies, rc, fake_dev, devres, registered, pc, locs, now,
                 set_called, max_ret, seen, prev_read, commit_rec, obs, lag,
                 auto_commit>>

\* rtc_register_device; on failure del_timer, devres_release_group,
\* destroy_fake_device.
init_register_device ==
  /\ mod = "init_register"
  /\ \/ /\ registered' = TRUE
        /\ mod' = "live"
        /\ rc' = err_to_rc(0)
        /\ UNCHANGED <<timer, fake_dev, devres, lag>>
     \/ /\ registered' = FALSE
        /\ timer' = del_timer
        /\ lag' = [lag EXCEPT ![Timer] = IF pc[Timer] = "idle" THEN 0 ELSE @]
        /\ devres' = FALSE
        /\ fake_dev' = [class |-> FALSE, dev |-> FALSE]
        /\ mod' = "failed"
        /\ rc' = err_to_rc(-ENOMEM)
  /\ UNCHANGED <<preempted, jiffies, drv, pc, locs, now, hist>>

\* ---------------------------------------------------- virt_rtc_exit
exit_del_timer ==
  /\ mod = "live"
  /\ timer' = del_timer
  /\ lag' = [lag EXCEPT ![Timer] = IF pc[Timer] = "idle" THEN 0 ELSE @]
  /\ mod' = "exit_release"
  /\ UNCHANGED <<preempted, jiffies, drv, rc, fake_dev, devres, registered, pc, locs, now, hist>>

\* devres_release_group unregisters rtcvirt: it waits for the operation in
\* progress, and no caller reaches virt_rtc_ops afterwards.
exit_release_group ==
  /\ mod = "exit_release"
  /\ \A c \in Callers : pc[c] = "idle"
  /\ registered' = FALSE
  /\ devres' = FALSE
  /\ mod' = "exit_destroy"
  /\ UNCHANGED <<preempted, jiffies, drv, timer, rc, fake_dev, pc, locs, now, hist, lag>>

exit_destroy_fake_device ==
  /\ mod = "exit_destroy"
  /\ fake_dev' = [class |-> FALSE, dev |-> FALSE]
  /\ mod' = "exited"
  /\ UNCHANGED <<preempted, jiffies, drv, timer, rc, devres, registered, pc, locs, now, hist, lag>>

\* ------------------------------------------------------------- Spec
Next ==
  \/ Tick
  \/ init_fake_device
  \/ init_devres_open_group
  \/ init_allocate_device
  \/ init_state
  \/ init_register_device
  \/ exit_del_timer
  \/ exit_release_group
  \/ exit_destroy_fake_device
  \/ timer_fire
  \/ \E p \in Procs : update_time_lock(p)
  \/ \E p \in Procs : update_time_add(p)
  \/ \E p \in Procs : update_time_unlock(p)
  \/ \E p \in Procs : reset_timer_read(p)
  \/ \E p \in Procs : reset_timer_mod(p)
  \/ \E c \in Callers : read_time_call(c)
  \/ \E c \in Callers : read_time_lock(c)
  \/ \E c \in Callers : read_time_read(c)
  \/ \E c \in Callers : read_time_return(c)
  \/ \E c \in Callers, t \in SetTimes : set_time_call(c, t)
  \/ \E c \in Callers : set_time_lock(c)
  \/ \E c \in Callers : set_time_time(c)
  \/ \E c \in Callers : set_time_jiffies(c)

Spec == Init /\ [][Next]_vars

\* The statements of an invocation in progress in context p, once entered.
Run(p) ==
  \/ update_time_lock(p)
  \/ update_time_add(p)
  \/ update_time_unlock(p)
  \/ reset_timer_read(p)
  \/ reset_timer_mod(p)
  \/ /\ p \in Callers
     /\ \/ read_time_lock(p)
        \/ read_time_read(p)
        \/ read_time_return(p)
        \/ set_time_lock(p)
        \/ set_time_time(p)
        \/ set_time_jiffies(p)

\* Fair scheduling: a context that can execute its next statement (it is on
\* its CPU and, at spin_lock_irqsave, the lock is free) eventually does.
FairSpec == Spec /\ \A p \in Procs : WF_vars(Run(p))

TypeOK ==
  /\ jiffies \in 0..(Wrap - 1)
  /\ last_jiffies \in 0..(Wrap - 1)
  /\ lock \in Procs \cup {NoProc}
  /\ now \in 0..MaxTicks

\* ----------------------------------------------------------- claims
\* x milliseconds rounded up to whole seconds.
CeilSec(x) == -((-x) \div MSEC_PER_SEC)

\* virt_rtc_init has returned 0 and virt_rtc_exit has not begun.
Live == mod = "live"

Returning(c) == pc[c] = "rd_ret" /\ obs[c].has

\* C1: with no set_time call in the execution, a read_time result is never
\* smaller than any result returned before that read_time was invoked.
C1_Monotonic ==
  \A c \in Callers :
    (Returning(c) /\ ~set_called /\ seen[c].has /\ rtc_valid_tm(tm[c]) = 0)
      => tm[c] >= seen[c].tm

\* A second read_time, invoked after the first returned and after jiffies
\* wrapped, returns more than the first.
C1_Witness ==
  \E c \in Callers :
    /\ Returning(c) /\ ~set_called
    /\ seen[c].has /\ tm[c] > seen[c].tm
    /\ obs[c].prev.has /\ Epoch(obs[c].stamp) > Epoch(obs[c].prev.stamp)

\* Two read_time calls that read last_time one after the other, with no
\* set_time between them and no wrap of jiffies between the commits they reflect.
ReadPair(c) ==
  /\ Returning(c)
  /\ obs[c].prev.has
  /\ Epoch(obs[c].stamp) = Epoch(obs[c].prev.stamp)

\* The duration of the ticks between the commits the two reads reflect.
PairD(c) == TickMs * (obs[c].stamp - obs[c].prev.stamp)

\* C2 as stated: the second result equals the first result plus D.
C2_Original ==
  \A c \in Callers :
    ReadPair(c) => tm[c] * MSEC_PER_SEC = obs[c].prev.tm * MSEC_PER_SEC + PairD(c)

\* C2 (amended): the second result is the committed time behind the first
\* result plus D, rounded up to a whole second; so it equals the first result
\* plus D to within one second.
C2_Accumulation ==
  \A c \in Callers :
    ReadPair(c) =>
      /\ tm[c] = CeilSec(obs[c].prev.kt + PairD(c))
      /\ tm[c] * MSEC_PER_SEC - (obs[c].prev.tm * MSEC_PER_SEC + PairD(c)) < MSEC_PER_SEC
      /\ (obs[c].prev.tm * MSEC_PER_SEC + PairD(c)) - tm[c] * MSEC_PER_SEC < MSEC_PER_SEC

\* A second read one tick after the first.
C2_Witness ==
  \E c \in Callers : ReadPair(c) /\ obs[c].stamp = obs[c].prev.stamp + 1

\* C3: a commit made fewer than 2^W ticks after the previous one, with a wrap
\* of jiffies in between, adds exactly the duration of those ticks.
C3_WrapTransparent ==
  (commit_rec.has /\ commit_rec.wrapped /\ commit_rec.elapsed < Wrap)
    => commit_rec.added = TickMs * commit_rec.elapsed

C3_Witness ==
  /\ commit_rec.has /\ commit_rec.wrapped
  /\ commit_rec.elapsed > 0 /\ commit_rec.elapsed < Wrap
  /\ commit_rec.added = TickMs * commit_rec.elapsed

\* C4: a read_time that reads last_time in the tick in which set_time(T), T
\* valid, re-based the clock returns exactly T.
C4_RoundTrip ==
  \A c \in Callers :
    (Returning(c) /\ obs[c].base.set /\ obs[c].at = obs[c].base.now
       /\ rtc_valid_tm(obs[c].base.tm) = 0)
      => (tm[c] = obs[c].base.tm /\ rtc_valid_tm(tm[c]) = 0)

C4_Witness ==
  \E c \in Callers :
    /\ Returning(c) /\ obs[c].base.set /\ obs[c].at = obs[c].base.now
    /\ obs[c].base.tm = 5 /\ tm[c] = 5

\* A read_time after a set_time, with no wrap of jiffies between the set and
\* the commit the read reflects.
SetThenRead(c) ==
  /\ Returning(c)
  /\ obs[c].base.set
  /\ Epoch(obs[c].stamp) = Epoch(obs[c].base.now)

SetD(c) == TickMs * (obs[c].stamp - obs[c].base.now)

\* C5 as stated: the result is T plus the duration of the ticks, at tick precision.
C5_Original ==
  \A c \in Callers :
    SetThenRead(c) => tm[c] * MSEC_PER_SEC = obs[c].base.tm * MSEC_PER_SEC + SetD(c)

\* C5 (amended): the result is T plus the duration of the ticks, rounded up to
\* a whole second.
C5_SetThenAdvance ==
  \A c \in Callers :
    SetThenRead(c) => tm[c] = CeilSec(obs[c].base.tm * MSEC_PER_SEC + SetD(c))

\* set_time(5 s), one tick, read_time: 6 s.
C5_Witness ==
  \E c \in Callers :
    /\ SetThenRead(c) /\ obs[c].stamp = obs[c].base.now + 1
    /\ obs[c].base.tm = 5 /\ tm[c] = 6

\* C6: between start and stop, fewer than 2^W ticks pass between two
\* successive commits.
C6_CommitInterval ==
  (Live /\ commit_rec.has) => commit_rec.elapsed < Wrap

\* C7: with no read_time or set_time call at all, the periodic callback keeps
\* the live tick counter less than 2^W ticks ahead of the committed tick.
C7_IdleResync ==
  (Live /\ calls = 0) => now - commit_now < Wrap

\* A context that has written last_time and not yet last_jiffies.
HalfWritten(p) == pc[p] \in {"ut_jiffies", "st_jiffies"}

\* A context inside a critical section of state.lock.
InCritical(p) == pc[p] \in {"ut_time", "ut_jiffies", "rd_read", "st_time", "st_jiffies"}

Waiting(p) == pc[p] \in {"ut_lock", "rd_lock", "st_lock"}

\* C8: while one context has written last_time and not yet last_jiffies, it
\* holds the lock and no other context is inside a critical section: nobody
\* observes the half-written pair.
C8_NoTornRead ==
  \A p \in Procs :
    HalfWritten(p) =>
      /\ lock = p
      /\ \A q \in Procs \ {p} : ~InCritical(q)

\* A set_time has half-written the pair while a read_time and the timer
\* callback wait for the lock.
C8_Witness ==
  \E p \in Callers, q \in Callers :
    /\ p # q
    /\ pc[p] = "st_jiffies" /\ Waiting(q) /\ Waiting(Timer)

\* C9: after virt_rtc_exit's del_timer has returned, no timer callback commits.
C9_CancellationFinal == ~auto_commit

\* C10: when del_timer returns in virt_rtc_exit, no callback is running and
\* none is pending.
C10_SynchronousCancel ==
  [][exit_del_timer => (pc'[Timer] = "idle" /\ ~timer'.pending)]_vars

\* C11: a set_time whose struct rtc_time is rejected by rtc_valid_tm writes
\* neither last_time nor last_jiffies.
C11_InvalidSetRejected ==
  [][\A c \in Callers :
       (pc[c] \in {"st_time", "st_jiffies"} /\ rtc_valid_tm(tm[c]) # 0)
         => (last_time' = last_time /\ last_jiffies' = last_jiffies)]_vars

\* The instant kt, rounded up to whole seconds, is a date struct rtc_time can hold.
Representable(kt) == CeilSec(kt) >= 0

BetweenCommitAndRead(c) == pc[c] \in {"rt_exp", "rt_mod", "rd_lock"}

\* C13: between the commit a read_time makes and its read of last_time, no
\* set_time and no other commit writes last_time or last_jiffies.
C13_SingleAcquisition ==
  [][\A c \in Callers :
       BetweenCommitAndRead(c)
         => (last_time' = last_time /\ last_jiffies' = last_jiffies)]_vars

\* The scheduler is Armed: the timer is pending, or its callback is running
\* and has yet to re-arm it.
Armed == timer.pending \/ pc[Timer] # "idle"

\* C14: the mod_timer made on behalf of a caller's read_time leaves the
\* scheduler as it was, Armed or Idle.
C14_CallersKeepScheduler ==
  [][\A c \in Callers : reset_timer_mod(c) => (Armed' <=> Armed)]_vars

\* C15: when virt_rtc_init's reset_timer or the timer callback finishes, the
\* deadline it leaves is state.last_jiffies - 1 for the last_jiffies then stored.
C15_DeadlineRule ==
  [][(init_state \/ reset_timer_mod(Timer))
       => (timer'.pending /\ timer'.expires = TimerExpires(last_jiffies'))]_vars

\* C16: a context at a statement that reads or writes state.last_time or
\* state.last_jiffies holds state.lock.
C16_LockDiscipline ==
  \A p \in Procs :
    pc[p] \in {"ut_time", "ut_jiffies", "rt_exp", "rd_read", "st_time", "st_jiffies"}
      => lock = p

\* C17: whoever holds state.lock is inside a critical section, every path of
\* which ends in spin_unlock_irqrestore; the timer callback never waits for
\* the lock while the caller it interrupted holds it; and, under fair
\* scheduling, every invocation in progress returns.
C17_NoIndefiniteBlocking ==
  /\ [](\A p \in Procs : lock = p => InCritical(p))
  /\ [](~(Waiting(Timer) /\ preempted # NoProc /\ lock = preempted))
  /\ \A p \in Procs : (pc[p] # "idle") ~> (pc[p] = "idle")

\* The timer callback, running on top of a caller it interrupted, waits for
\* the lock, which the other caller holds.
C17_Witness ==
  \E c \in Callers, d \in Callers :
    /\ c # d
    /\ preempted = c
    /\ Waiting(Timer)
    /\ lock = d

\* virt_rtc_init has run the statements that initialise state and arm the timer.
Initialised == mod \in {"init_register", "live", "exit_release", "exit_destroy", "exited"}

\* C18: callers reach the driver only once virt_rtc_init has initialised the
\* state and armed the timer: right after virt_rtc_init the state is
\* last_time = 0, last_jiffies = jiffies, lock free, and until virt_rtc_exit
\* the scheduler is Armed.
C18_StartOrdering ==
  (registered \/ calls > 0) =>
    /\ Initialised
    /\ (Live /\ now = 0 /\ calls = 0) =>
         (last_time = 0 /\ last_jiffies = jiffies /\ lock = NoProc
            /\ timer.pending /\ timer.expires = TimerExpires(jiffies))
    /\ Live => Armed

\* The first call, made as soon as the device is registered.
C18_Witness ==
  \E c \in Callers :
    /\ pc[c] = "ut_lock" /\ calls = 1
    /\ Live /\ now = 0
    /\ Armed /\ last_time = 0

\* A statement of caller c's set_time.
SetTimeStep(c) ==
  \/ \E t \in SetTimes : set_time_call(c, t)
  \/ set_time_lock(c)
  \/ set_time_time(c)
  \/ set_time_jiffies(c)

\* C19: no statement of set_time touches the timer (pending or not, and its
\* deadline), the registration or the tick counter; last_time and
\* last_jiffies are written only by its two assignments; and a pending
\* deadline left in place is reached no later than the new last_jiffies - 1,
\* counting forward from the current tick.
C19_SetTimeFrame ==
  [][\A c \in Callers :
       SetTimeStep(c) =>
         /\ timer' = timer
         /\ (Armed' <=> Armed)
         /\ <<jiffies, mod, rc, fake_dev, devres, registered>>'
              = <<jiffies, mod, rc, fake_dev, devres, registered>>
         /\ ~set_time_time(c) => last_time' = last_time
         /\ ~set_time_jiffies(c) => last_jiffies' = last_jiffies
         /\ (set_time_jiffies(c) /\ timer'.pending /\ ~timer'.due) =>
              JiffiesDelta(timer'.expires, jiffies')
                <= JiffiesDelta(TimerExpires(last_jiffies'), jiffies')]_vars

\* A set_time has just returned, a tick or more after the timer was armed:
\* the deadline in place is earlier than the new last_jiffies - 1.
C19_Witness ==
  /\ base.set /\ base.now = now /\ last_jiffies = jiffies
  /\ \A c \in Callers : pc[c] = "idle"
  /\ timer.pending /\ ~timer.due
  /\ JiffiesDelta(timer.expires, jiffies) < JiffiesDelta(TimerExpires(last_jiffies), jiffies)

\* C20: virt_rtc_init returns 0 only when every step succeeded, and from a
\* failed virt_rtc_init it returns a negative code with the timer not armed
\* and fake_dev's class and device destroyed.
C20_InitResult ==
  /\ mod = "failed" =>
       (rc < 0 /\ ~timer.pending /\ ~fake_dev.class /\ ~fake_dev.dev)
  /\ Live =>
       (rc = 0 /\ fake_dev.class /\ fake_dev.dev /\ devres /\ registered)

=============================================================================
